---- MODULE Spec2Model ----
(***************************************************************************)
(* Client of the Saleae Logic socket API (src/Salamander.py, whose first   *)
(* 284 lines are src/SaleaeApi.py): the request/response exchange of       *)
(* _SaleaeSocket.request and the catalog operations built on it.           *)
(*                                                                         *)
(* Text is modelled as it is on the wire: a Python str is a sequence of    *)
(* one-character strings, so that split, join, strip and int are computed  *)
(* on characters as the code computes them.                                *)
(***************************************************************************)
EXTENDS Integers, Sequences, FiniteSets

VARIABLES
    op,        \* name of the operation of the current (last) call
    params,    \* the arguments the caller passed to it
    sent,      \* the frames this call handed to sock.send, in order
    accepted,  \* what sock.send did: bytes accepted, or SendError
    rbuf,      \* what sock.recv did in this call: data, timeout or error
    io,        \* the socket calls this call made, in order
    status,    \* how request() ended: [kind, lines]
    outcome,   \* how the catalog operation ended: [kind, val]
    rx,        \* session: response frames lying unread in the socket
    late,      \* session: requests the device has not answered yet
    reqno,     \* session: number of the request of the current call
    ansno      \* session: the request whose answer the current call read

callvars == <<op, params, sent, accepted, rbuf, io, status, outcome>>
sockvars == <<rx, late, reqno, ansno>>
vars == <<op, params, sent, accepted, rbuf, io, status, outcome, rx, late, reqno, ansno>>

(***************************************************************************)
(* Bounds of the model.                                                    *)
(***************************************************************************)
\* payload lines in one response buffer
MaxLines == 2
\* entries in the sequence passed to set_trigger
MaxTrig == 3
\* arguments of a direct request() call
MaxArgs == 2
\* characters of a raw response buffer
MaxRaw == 5
\* calls made on one session (SpecSession)
MaxCalls == 3

(***************************************************************************)
(* Program constants.                                                      *)
(***************************************************************************)
_ACK ==
    <<"A","C","K">>
_NAK ==
    <<"N","A","K">>
_BUFSIZE ==
    1024
T_TRUE ==
    <<"T","R","U","E">>
T_ACTIVE ==
    <<"A","C","T","I","V","E">>
T_high ==
    <<"h","i","g","h">>
T_low ==
    <<"l","o","w">>
T_negedge ==
    <<"n","e","g","e","d","g","e">>
T_posedge ==
    <<"p","o","s","e","d","g","e">>
T_analog_channels ==
    <<"a","n","a","l","o","g","_","c","h","a","n","n","e","l","s">>
T_digital_channels ==
    <<"d","i","g","i","t","a","l","_","c","h","a","n","n","e","l","s">>
T_set_trigger ==
    <<"s","e","t","_","t","r","i","g","g","e","r">>
T_set_num_samples ==
    <<"s","e","t","_","n","u","m","_","s","a","m","p","l","e","s">>
T_set_sample_rate ==
    <<"s","e","t","_","s","a","m","p","l","e","_","r","a","t","e">>
T_get_all_sample_rates ==
    <<"g","e","t","_","a","l","l","_","s","a","m","p","l","e","_","r","a","t","e","s">>
T_get_connected_devices ==
    <<"g","e","t","_","c","o","n","n","e","c","t","e","d","_","d","e","v","i","c","e","s">>
T_get_performance ==
    <<"g","e","t","_","p","e","r","f","o","r","m","a","n","c","e">>
T_set_performance ==
    <<"s","e","t","_","p","e","r","f","o","r","m","a","n","c","e">>
T_get_capture_pretrigger_buffer_size ==
    <<"g","e","t","_","c","a","p","t","u","r","e","_","p","r","e","t","r","i","g","g","e","r","_","b","u","f","f","e","r","_","s","i","z","e">>
T_set_capture_pretrigger_buffer_size ==
    <<"s","e","t","_","c","a","p","t","u","r","e","_","p","r","e","t","r","i","g","g","e","r","_","b","u","f","f","e","r","_","s","i","z","e">>
T_select_active_device ==
    <<"s","e","l","e","c","t","_","a","c","t","i","v","e","_","d","e","v","i","c","e">>
T_get_active_channels ==
    <<"g","e","t","_","a","c","t","i","v","e","_","c","h","a","n","n","e","l","s">>
T_set_active_channels ==
    <<"s","e","t","_","a","c","t","i","v","e","_","c","h","a","n","n","e","l","s">>
T_reset_active_channels ==
    <<"r","e","s","e","t","_","a","c","t","i","v","e","_","c","h","a","n","n","e","l","s">>
T_capture ==
    <<"c","a","p","t","u","r","e">>
T_stop_capture ==
    <<"s","t","o","p","_","c","a","p","t","u","r","e">>
T_capture_to_file ==
    <<"c","a","p","t","u","r","e","_","t","o","_","f","i","l","e">>
T_is_processing_complete ==
    <<"i","s","_","p","r","o","c","e","s","s","i","n","g","_","c","o","m","p","l","e","t","e">>

\* the byte 0 that ends a request frame
NUL == "\\0"
LF == "\n"
COMMA == ","
SPACE == " "

(***************************************************************************)
(* Python text and list primitives, on sequences of characters.            *)
(***************************************************************************)
Min(a, b) == IF a < b THEN a ELSE b

Last(s) == s[Len(s)]

Front(s) == SubSeq(s, 1, Len(s) - 1)

\* s[i:] of Python, i counted from 0
From(s, i) == SubSeq(s, i + 1, Len(s))

\* whether sep occurs in s at (1-based) position i
MatchAt(s, sep, i) ==
    /\ i + Len(sep) - 1 <= Len(s)
    /\ SubSeq(s, i, i + Len(sep) - 1) = sep

\* str.find: the first position of sep in s, 0 when there is none
Find(s, sep) ==
    LET hits == {i \in 1..Len(s) : MatchAt(s, sep, i)}
    IN  IF hits = {} THEN 0 ELSE CHOOSE i \in hits : \A j \in hits : i <= j

\* str.split(sep), sep not empty: never an empty list
RECURSIVE Split(_, _)
Split(s, sep) ==
    LET i == Find(s, sep)
    IN  IF i = 0 THEN <<s>>
        ELSE <<SubSeq(s, 1, i - 1)>> \o Split(From(s, i + Len(sep) - 1), sep)

\* sep.join(parts)
RECURSIVE Join(_, _)
Join(parts, sep) ==
    IF parts = <<>> THEN <<>>
    ELSE IF Len(parts) = 1 THEN parts[1]
    ELSE parts[1] \o sep \o Join(Tail(parts), sep)

Whitespace == {" ", "\t", "\n", "\r", "\f"}

\* str.strip()
RECURSIVE Strip(_)
Strip(s) ==
    IF s = <<>> THEN s
    ELSE IF Head(s) \in Whitespace THEN Strip(Tail(s))
    ELSE IF Last(s) \in Whitespace THEN Strip(Front(s))
    ELSE s

Digits == <<"0","1","2","3","4","5","6","7","8","9">>

\* the value of a digit character, 99 for any other character
DigitVal(c) ==
    CASE c = "0" -> 0 [] c = "1" -> 1 [] c = "2" -> 2 [] c = "3" -> 3
      [] c = "4" -> 4 [] c = "5" -> 5 [] c = "6" -> 6 [] c = "7" -> 7
      [] c = "8" -> 8 [] c = "9" -> 9
      [] c \in {"a", "A"} -> 10 [] c \in {"b", "B"} -> 11
      [] c \in {"c", "C"} -> 12 [] c \in {"d", "D"} -> 13
      [] c \in {"e", "E"} -> 14 [] c \in {"f", "F"} -> 15
      [] OTHER -> 99

RECURSIVE DigitsValue(_, _)
DigitsValue(s, base) ==
    IF s = <<>> THEN 0
    ELSE DigitsValue(Front(s), base) * base + DigitVal(Last(s))

\* digits of the given base, at least one: [ok, val]
ParseDigits(s, base) ==
    IF s # <<>> /\ \A i \in 1..Len(s) : DigitVal(s[i]) < base
    THEN [ok |-> TRUE, val |-> DigitsValue(s, base)]
    ELSE [ok |-> FALSE, val |-> 0]

\* the literal after its sign; base 0 reads the base off the prefix
\* (Python 2: 0x is hexadecimal, a leading 0 is octal)
ParseUnsigned(s, base) ==
    IF base = 0
    THEN IF Len(s) >= 2 /\ s[1] = "0" /\ s[2] \in {"x", "X"}
         THEN ParseDigits(From(s, 2), 16)
         ELSE IF Len(s) >= 2 /\ s[1] = "0"
         THEN ParseDigits(From(s, 1), 8)
         ELSE ParseDigits(s, 10)
    ELSE ParseDigits(s, base)

\* int(text, base): [ok, val]; ok = FALSE is Python's ValueError
int(text, base) ==
    LET s == Strip(text)
        neg == s # <<>> /\ s[1] = "-"
        body == IF s # <<>> /\ s[1] \in {"-", "+"} THEN Tail(s) ELSE s
        u == ParseUnsigned(body, base)
    IN  [ok |-> u.ok, val |-> IF neg THEN 0 - u.val ELSE u.val]

\* str(n) of an integer
RECURSIVE NatStr(_)
NatStr(n) ==
    IF n < 10 THEN <<Digits[n + 1]>>
    ELSE NatStr(n \div 10) \o <<Digits[(n % 10) + 1]>>

str_int(n) == IF n < 0 THEN <<"-">> \o NatStr(0 - n) ELSE NatStr(n)

\* all sequences over S of length at most n
SeqsUpTo(S, n) == UNION {[1..k -> S] : k \in 0..n}

(***************************************************************************)
(* Argument values of a request: absent (None), an integer, a text, or a   *)
(* list of argument values.  One record shape for all four, told apart by  *)
(* the field t as filter_param tells them apart by type.                   *)
(***************************************************************************)
None == [t |-> "none", n |-> 0, s |-> <<>>, l |-> <<>>]

IntArg(k) == [t |-> "int", n |-> k, s |-> <<>>, l |-> <<>>]

StrArg(x) == [t |-> "str", n |-> 0, s |-> x, l |-> <<>>]

ListArg(xs) == [t |-> "list", n |-> 0, s |-> <<>>, l |-> xs]

\* str(param) of a scalar argument
str(param) == IF param.t = "int" THEN str_int(param.n) ELSE param.s

RECURSIVE filter_param(_)
filter_param(param) ==
    IF param.t = "none" THEN <<>>
    ELSE IF param.t = "list"
    THEN Join([i \in 1..Len(param.l) |-> filter_param(param.l[i])], <<COMMA>>)
    ELSE str(param)

\* the frame request() hands to sock.send
Encode(cmd, args) ==
    LET joined == Join([i \in 1..Len(args) |-> filter_param(args[i])], <<COMMA>>)
    IN  cmd \o (IF joined # <<>> THEN <<COMMA>> ELSE <<>>) \o joined \o <<NUL>>

(***************************************************************************)
(* The socket, as request() sees it.  sock.send(frame) raises socket.error *)
(* or returns the number of bytes it accepted, which may be fewer than the *)
(* frame holds.  sock.recv(_BUFSIZE) raises socket.timeout or socket.error *)
(* or returns at most _BUFSIZE bytes.                                      *)
(***************************************************************************)
SendError == -1

RecvTimeout == [res |-> "timeout", buf |-> <<>>]

RecvError == [res |-> "error", buf |-> <<>>]

RecvData(bytes) == [res |-> "data", buf |-> SubSeq(bytes, 1, Min(Len(bytes), _BUFSIZE))]

NoRecv == [res |-> "none", buf |-> <<>>]

\* Classify with the comparison against "ACK" left out: whatever is not
\* "NAK" counts as acknowledged
Classify_NoAckTest(response) ==
    LET result == Last(response)
    IN  IF result = _NAK THEN [kind |-> "NAKError", lines |-> <<>>]
        ELSE [kind |-> "return", lines |-> Front(response)]

\* the status line decides: the lines before it, NAKError or ResponseError
Classify(response) ==
    LET result == Last(response)
    IN  IF result = _NAK THEN [kind |-> "NAKError", lines |-> <<>>]
        ELSE IF result # _ACK THEN [kind |-> "ResponseError", lines |-> <<>>]
        ELSE [kind |-> "return", lines |-> Front(response)]

\* request() with a retry: after a read timeout it sends the frame and
\* reads once more
request_Retry(cmd, args, n, r) ==
    LET frame == Encode(cmd, args)
    IN  IF n = SendError
        THEN [sent |-> <<frame>>, io |-> <<"send">>,
              kind |-> "socket.error", lines |-> <<>>]
        ELSE IF r.res = "timeout"
        THEN [sent |-> <<frame, frame>>, io |-> <<"send", "recv", "send", "recv">>,
              kind |-> "socket.timeout", lines |-> <<>>]
        ELSE IF r.res = "error"
        THEN [sent |-> <<frame>>, io |-> <<"send", "recv">>,
              kind |-> "socket.error", lines |-> <<>>]
        ELSE LET c == Classify(Split(r.buf, <<LF>>))
             IN  [sent |-> <<frame>>, io |-> <<"send", "recv">>,
                  kind |-> c.kind, lines |-> c.lines]

\* request(cmd, *args), with n what send did and r what recv did:
\* the frames sent, the socket calls made, and how the call ended
request(cmd, args, n, r) ==
    LET frame == Encode(cmd, args)
    IN  IF n = SendError
        THEN [sent |-> <<frame>>, io |-> <<"send">>,
              kind |-> "socket.error", lines |-> <<>>]
        ELSE IF r.res = "timeout"
        THEN [sent |-> <<frame>>, io |-> <<"send", "recv">>,
              kind |-> "socket.timeout", lines |-> <<>>]
        ELSE IF r.res = "error"
        THEN [sent |-> <<frame>>, io |-> <<"send", "recv">>,
              kind |-> "socket.error", lines |-> <<>>]
        ELSE LET c == Classify(Split(r.buf, <<LF>>))
             IN  [sent |-> <<frame>>, io |-> <<"send", "recv">>,
                  kind |-> c.kind, lines |-> c.lines]

(***************************************************************************)
(* The catalog operations.  Each yields the record of one call:            *)
(* sent, io, status (how request ended) and outcome (how the operation     *)
(* ended, an exception kind or "return" with the value returned).          *)
(***************************************************************************)
Return(v) == [kind |-> "return", val |-> v]

Raise(k) == [kind |-> k, val |-> <<>>]

\* an operation that calls request(): an exception of request() passes
\* through to the caller; when request() returns, the operation ends as
\* its remaining statements end, which is decoded
Through(rq, decoded) ==
    [sent |-> rq.sent, io |-> rq.io,
     status |-> [kind |-> rq.kind, lines |-> rq.lines],
     outcome |-> IF rq.kind = "return" THEN decoded ELSE Raise(rq.kind)]

\* an operation that raised before it called request()
NotSent(k) ==
    [sent |-> <<>>, io |-> <<>>,
     status |-> [kind |-> "none", lines |-> <<>>],
     outcome |-> Raise(k)]

TriggerValues == {T_high, T_low, T_negedge, T_posedge}

\* the loop of set_trigger without "edge = True": a second edge passes
RECURSIVE trigger_loop_EdgeNotSet(_, _)
trigger_loop_EdgeNotSet(ps, edge) ==
    IF ps = <<>> THEN TRUE
    ELSE LET param == Head(ps)
         IN  IF ~(param.t = "none" \/ (param.t = "str" /\ param.s \in TriggerValues))
             THEN FALSE
             ELSE IF param.t = "str" /\ param.s \in {T_negedge, T_posedge}
             THEN IF edge THEN FALSE ELSE trigger_loop_EdgeNotSet(Tail(ps), edge)
             ELSE trigger_loop_EdgeNotSet(Tail(ps), edge)

\* the loop of set_trigger: TRUE when it ends without raising ValueError
RECURSIVE trigger_loop(_, _)
trigger_loop(ps, edge) ==
    IF ps = <<>> THEN TRUE
    ELSE LET param == Head(ps)
         IN  IF ~(param.t = "none" \/ (param.t = "str" /\ param.s \in TriggerValues))
             THEN FALSE
             ELSE IF param.t = "str" /\ param.s \in {T_negedge, T_posedge}
             THEN IF edge THEN FALSE ELSE trigger_loop(Tail(ps), TRUE)
             ELSE trigger_loop(Tail(ps), edge)

set_trigger(ps, n, r) ==
    IF trigger_loop(ps, FALSE)
    THEN Through(request(T_set_trigger, ps, n, r),
                 Return("None"))
    ELSE NotSent("ValueError")

set_num_samples(samples, n, r) ==
    Through(request(T_set_num_samples, <<samples>>, n, r),
            Return("None"))

set_sample_rate(digital_sample_rate, analog_sample_rate, n, r) ==
    Through(request(T_set_sample_rate, <<digital_sample_rate, analog_sample_rate>>, n, r),
            Return("None"))

\* the loop of get_all_sample_rates over the lines left, rates decoded so far
RECURSIVE sample_rates_loop(_, _)
sample_rates_loop(lines, sample_rates) ==
    IF lines = <<>> THEN Return(sample_rates)
    ELSE LET fields == Split(Head(lines), <<COMMA, SPACE>>)
         IN  IF Len(fields) # 2 THEN Raise("ValueError")
             ELSE LET digital == int(fields[1], 10)
                      analog == int(fields[2], 10)
                  IN  IF ~digital.ok \/ ~analog.ok THEN Raise("ValueError")
                      ELSE sample_rates_loop(Tail(lines),
                               Append(sample_rates, <<digital.val, analog.val>>))

get_all_sample_rates_decode(response) == sample_rates_loop(response, <<>>)

get_all_sample_rates(n, r) ==
    LET rq == request(T_get_all_sample_rates, <<>>, n, r)
    IN  Through(rq, get_all_sample_rates_decode(rq.lines))

\* the active flag of one device line
device_active(fields) == Len(fields) = 5 /\ fields[5] = T_ACTIVE

\* the loop of get_connected_devices over the lines left, devices decoded so far
RECURSIVE devices_loop(_, _)
devices_loop(lines, devices) ==
    IF lines = <<>> THEN Return(devices)
    ELSE LET fields == Split(Head(lines), <<COMMA, SPACE>>)
         IN  IF Len(fields) < 4 THEN Raise("ResponseError")
             ELSE LET index == int(fields[1], 10)
                      device_id == int(fields[4], 0)
                  IN  IF ~index.ok \/ ~device_id.ok THEN Raise("ValueError")
                      ELSE devices_loop(Tail(lines),
                               Append(devices,
                                      [index |-> index.val, name |-> fields[2],
                                       type |-> fields[3], device_id |-> device_id.val,
                                       active |-> device_active(fields)]))

get_connected_devices_decode(response) == devices_loop(response, <<>>)

get_connected_devices(n, r) ==
    LET rq == request(T_get_connected_devices, <<>>, n, r)
    IN  Through(rq, get_connected_devices_decode(rq.lines))

\* int(response[0])
int_of_first_line(response) ==
    IF response = <<>> THEN Raise("IndexError")
    ELSE LET v == int(response[1], 10)
         IN  IF v.ok THEN Return(v.val) ELSE Raise("ValueError")

get_performance(n, r) ==
    LET rq == request(T_get_performance, <<>>, n, r)
    IN  Through(rq, int_of_first_line(rq.lines))

set_performance(performance, n, r) ==
    Through(request(T_set_performance, <<performance>>, n, r),
            Return("None"))

get_capture_pretrigger_buffer_size(n, r) ==
    LET rq == request(T_get_capture_pretrigger_buffer_size, <<>>, n, r)
    IN  Through(rq, int_of_first_line(rq.lines))

set_capture_pretrigger_buffer_size(size, n, r) ==
    Through(request(T_set_capture_pretrigger_buffer_size, <<size>>, n, r),
            Return("None"))

select_active_device(index, n, r) ==
    Through(request(T_select_active_device, <<index>>, n, r),
            Return("None"))

\* [int(ch) for ch in fields]: [ok, val]
ints_of(fields) ==
    LET vs == [i \in 1..Len(fields) |-> int(fields[i], 10)]
    IN  [ok |-> \A i \in 1..Len(fields) : vs[i].ok,
         val |-> [i \in 1..Len(fields) |-> vs[i].val]]

get_active_channels_decode(lines) ==
    IF lines = <<>> THEN Raise("IndexError")
    ELSE LET split == Split(lines[1], <<COMMA>>)
             response == [i \in 1..Len(split) |-> Strip(split[i])]
             hits == {i \in 1..Len(response) : response[i] = T_analog_channels}
         IN  IF hits = {} THEN Raise("ValueError")
             ELSE LET analog_pos == CHOOSE i \in hits : \A j \in hits : i <= j
                      digital == ints_of(SubSeq(response, 2, analog_pos - 1))
                      analog == ints_of(SubSeq(response, analog_pos + 1, Len(response)))
                  IN  IF ~digital.ok \/ ~analog.ok THEN Raise("ValueError")
                      ELSE Return(<<digital.val, analog.val>>)

get_active_channels(n, r) ==
    LET rq == request(T_get_active_channels, <<>>, n, r)
    IN  Through(rq, get_active_channels_decode(rq.lines))

set_active_channels(digital, analog, n, r) ==
    Through(request(T_set_active_channels, <<StrArg(T_digital_channels), digital, StrArg(T_analog_channels), analog>>, n, r),
            Return("None"))

reset_active_channels(n, r) ==
    Through(request(T_reset_active_channels, <<>>, n, r),
            Return("None"))

capture(n, r) ==
    Through(request(T_capture, <<>>, n, r),
            Return("None"))

\* stop_capture without its except clause
stop_capture_NoExcept(n, r) ==
    Through(request(T_stop_capture, <<>>, n, r),
            Return("None"))

\* stop_capture catches NAKError and returns
stop_capture(n, r) ==
    LET c == Through(request(T_stop_capture, <<>>, n, r),
                     Return("None"))
    IN  IF c.outcome.kind = "NAKError" THEN [c EXCEPT !.outcome = Return("None")]
        ELSE c

capture_to_file(file_path, n, r) ==
    Through(request(T_capture_to_file, <<file_path>>, n, r),
            Return("None"))

is_processing_complete_decode(response) ==
    IF response = <<>> THEN Raise("IndexError")
    ELSE Return(response[1] = T_TRUE)

is_processing_complete(n, r) ==
    LET rq == request(T_is_processing_complete, <<>>, n, r)
    IN  Through(rq, is_processing_complete_decode(rq.lines))

(***************************************************************************)
(* Inputs: what callers pass and what the socket does.                     *)
(***************************************************************************)
\* send accepts the whole frame, or only its first byte, or fails
SendResults(frame) == {SendError, 1, Len(frame)}

StatusLines == {_ACK, _NAK, <<>>, <<"M","A","Y","B","E">>}

\* response buffers: up to MaxLines payload lines and a status line, and
\* the empty buffer
Buffers(PayloadLines) ==
    {<<>>} \cup
    {Join(ls \o <<st>>, <<LF>>) : ls \in SeqsUpTo(PayloadLines, MaxLines), st \in StatusLines}

RecvResults(PayloadLines) ==
    {RecvTimeout, RecvError} \cup {RecvData(b) : b \in Buffers(PayloadLines)}

\* every buffer of at most MaxRaw characters over the characters of the
\* status tokens and the line separator
RawBuffers == SeqsUpTo({"A", "C", "K", "N", LF}, MaxRaw)

RawRecvResults == {RecvTimeout, RecvError} \cup {RecvData(b) : b \in RawBuffers}

Line(fields) == Join(fields, <<COMMA, SPACE>>)

PlainLines == {<<"x">>}

IntLines == {<<"3","3">>, <<"x">>}

RateLines ==
    {Line(<<(<<"2","4">>), (<<"0">>)>>), <<"2","4">>, Line(<<(<<"x">>), (<<"0">>)>>)}

DeviceLines ==
    {Line(<<(<<"1">>), (<<"L">>), (<<"T">>), (<<"0","x","9">>)>>),
     Line(<<(<<"1">>), (<<"L">>), (<<"T">>), (<<"9">>), T_ACTIVE>>),
     Line(<<(<<"1">>), (<<"L">>), (<<"T">>), (<<"9">>), (<<"x">>)>>),
     Line(<<(<<"2">>), (<<"L">>), (<<"T">>), (<<"9">>), T_ACTIVE, (<<"z">>)>>),
     Line(<<(<<"1">>), (<<"L">>), (<<"T">>)>>),
     Line(<<(<<"x">>), (<<"L">>), (<<"T">>), (<<"9">>)>>)}

ChannelLines ==
    {Line(<<T_digital_channels, (<<"0">>), (<<"1">>), T_analog_channels, (<<"4">>)>>),
     Line(<<T_digital_channels, (<<"0">>)>>),
     Line(<<T_digital_channels, (<<"x">>), T_analog_channels>>),
     T_analog_channels}

BoolLines == {T_TRUE, <<"F","A","L","S","E">>}

TriggerParams ==
    SeqsUpTo({None, StrArg(T_high), StrArg(T_low), StrArg(T_negedge),
              StrArg(T_posedge), StrArg(<<"h","i","+","g","h">>)}, MaxTrig)

IntArgs == {IntArg(0), IntArg(25)}

ChannelArgs == {ListArg(<<>>), ListArg(<<IntArg(0), IntArg(1)>>)}

PathArgs == {StrArg(<<"f">>)}

Commands == {<<"c">>, T_capture}

RequestArgs == SeqsUpTo({None, IntArg(12), StrArg(<<"a">>)}, MaxArgs)

(***************************************************************************)
(* The state machine: one action per operation, each a whole call.         *)
(***************************************************************************)
NoStatus == [kind |-> "none", lines |-> <<>>]

Init ==
    /\ op = "none"
    /\ params = <<>>
    /\ sent = <<>>
    /\ accepted = 0
    /\ rbuf = NoRecv
    /\ io = <<>>
    /\ status = NoStatus
    /\ outcome = Raise("none")
    /\ rx = <<>>
    /\ late = <<>>
    /\ reqno = 0
    /\ ansno = 0

\* no call is in progress: the last one has returned to its caller
Idle == op = "none"

\* the call record c of operation o, called with ps, becomes the state
Exchange(o, ps, c, n, r) ==
    /\ op' = o
    /\ params' = ps
    /\ sent' = c.sent
    /\ io' = c.io
    /\ accepted' = IF Len(c.io) >= 1 THEN n ELSE 0
    /\ rbuf' = IF Len(c.io) >= 2 THEN r ELSE NoRecv
    /\ status' = c.status
    /\ outcome' = c.outcome

Do_request ==
    /\ Idle
    /\ \E cmd \in Commands, args \in RequestArgs :
        \E n \in SendResults(Encode(cmd, args)), r \in RecvResults(PlainLines) :
            /\ Exchange("request", <<cmd>> \o args,
                        LET rq == request(cmd, args, n, r)
                        IN  Through(rq, Return(rq.lines)), n, r)
            /\ UNCHANGED sockvars

Do_set_trigger ==
    /\ Idle
    /\ \E ps \in TriggerParams :
        \E n \in SendResults(Encode(T_set_trigger, ps)), r \in RecvResults(PlainLines) :
            /\ Exchange("set_trigger", ps, set_trigger(ps, n, r), n, r)
            /\ UNCHANGED sockvars

Do_set_num_samples ==
    /\ Idle
    /\ \E samples \in IntArgs :
        \E n \in SendResults(Encode(T_set_num_samples, <<samples>>)),
           r \in RecvResults(PlainLines) :
            /\ Exchange("set_num_samples", <<samples>>,
                        set_num_samples(samples, n, r), n, r)
            /\ UNCHANGED sockvars

Do_set_sample_rate ==
    /\ Idle
    /\ \E d \in IntArgs, a \in IntArgs :
        \E n \in SendResults(Encode(T_set_sample_rate, <<d, a>>)),
           r \in RecvResults(PlainLines) :
            /\ Exchange("set_sample_rate", <<d, a>>, set_sample_rate(d, a, n, r), n, r)
            /\ UNCHANGED sockvars

Do_get_all_sample_rates ==
    /\ Idle
    /\ \E n \in SendResults(Encode(T_get_all_sample_rates, <<>>)),
       r \in RecvResults(RateLines) :
        /\ Exchange("get_all_sample_rates", <<>>, get_all_sample_rates(n, r), n, r)
        /\ UNCHANGED sockvars

Do_get_connected_devices ==
    /\ Idle
    /\ \E n \in SendResults(Encode(T_get_connected_devices, <<>>)),
       r \in RecvResults(DeviceLines) :
        /\ Exchange("get_connected_devices", <<>>, get_connected_devices(n, r), n, r)
        /\ UNCHANGED sockvars

Do_get_performance ==
    /\ Idle
    /\ \E n \in SendResults(Encode(T_get_performance, <<>>)),
       r \in RecvResults(IntLines) :
        /\ Exchange("get_performance", <<>>, get_performance(n, r), n, r)
        /\ UNCHANGED sockvars

Do_set_performance ==
    /\ Idle
    /\ \E performance \in IntArgs :
        \E n \in SendResults(Encode(T_set_performance, <<performance>>)),
           r \in RecvResults(PlainLines) :
            /\ Exchange("set_performance", <<performance>>,
                        set_performance(performance, n, r), n, r)
            /\ UNCHANGED sockvars

Do_get_capture_pretrigger_buffer_size ==
    /\ Idle
    /\ \E n \in SendResults(Encode(T_get_capture_pretrigger_buffer_size, <<>>)),
       r \in RecvResults(IntLines) :
        /\ Exchange("get_capture_pretrigger_buffer_size", <<>>,
                    get_capture_pretrigger_buffer_size(n, r), n, r)
        /\ UNCHANGED sockvars

Do_set_capture_pretrigger_buffer_size ==
    /\ Idle
    /\ \E size \in IntArgs :
        \E n \in SendResults(Encode(T_set_capture_pretrigger_buffer_size, <<size>>)),
           r \in RecvResults(PlainLines) :
            /\ Exchange("set_capture_pretrigger_buffer_size", <<size>>,
                        set_capture_pretrigger_buffer_size(size, n, r), n, r)
            /\ UNCHANGED sockvars

Do_select_active_device ==
    /\ Idle
    /\ \E index \in IntArgs :
        \E n \in SendResults(Encode(T_select_active_device, <<index>>)),
           r \in RecvResults(PlainLines) :
            /\ Exchange("select_active_device", <<index>>,
                        select_active_device(index, n, r), n, r)
            /\ UNCHANGED sockvars

Do_get_active_channels ==
    /\ Idle
    /\ \E n \in SendResults(Encode(T_get_active_channels, <<>>)),
       r \in RecvResults(ChannelLines) :
        /\ Exchange("get_active_channels", <<>>, get_active_channels(n, r), n, r)
        /\ UNCHANGED sockvars

Do_set_active_channels ==
    /\ Idle
    /\ \E d \in ChannelArgs, a \in ChannelArgs :
        \E n \in SendResults(Encode(T_set_active_channels,
                                    <<StrArg(T_digital_channels), d,
                                      StrArg(T_analog_channels), a>>)),
           r \in RecvResults(PlainLines) :
            /\ Exchange("set_active_channels", <<d, a>>,
                        set_active_channels(d, a, n, r), n, r)
            /\ UNCHANGED sockvars

Do_reset_active_channels ==
    /\ Idle
    /\ \E n \in SendResults(Encode(T_reset_active_channels, <<>>)),
       r \in RecvResults(PlainLines) :
        /\ Exchange("reset_active_channels", <<>>, reset_active_channels(n, r), n, r)
        /\ UNCHANGED sockvars

Do_capture ==
    /\ Idle
    /\ \E n \in SendResults(Encode(T_capture, <<>>)), r \in RawRecvResults :
        /\ Exchange("capture", <<>>, capture(n, r), n, r)
        /\ UNCHANGED sockvars

Do_stop_capture ==
    /\ Idle
    /\ \E n \in SendResults(Encode(T_stop_capture, <<>>)), r \in RecvResults(PlainLines) :
        /\ Exchange("stop_capture", <<>>, stop_capture(n, r), n, r)
        /\ UNCHANGED sockvars

Do_capture_to_file ==
    /\ Idle
    /\ \E file_path \in PathArgs :
        \E n \in SendResults(Encode(T_capture_to_file, <<file_path>>)),
           r \in RecvResults(PlainLines) :
            /\ Exchange("capture_to_file", <<file_path>>,
                        capture_to_file(file_path, n, r), n, r)
            /\ UNCHANGED sockvars

Do_is_processing_complete ==
    /\ Idle
    /\ \E n \in SendResults(Encode(T_is_processing_complete, <<>>)),
       r \in RecvResults(BoolLines) :
        /\ Exchange("is_processing_complete", <<>>, is_processing_complete(n, r), n, r)
        /\ UNCHANGED sockvars

\* the call has ended and its caller goes on: nothing of the call is kept
Finish ==
    /\ ~Idle
    /\ op' = "none"
    /\ params' = <<>>
    /\ sent' = <<>>
    /\ accepted' = 0
    /\ rbuf' = NoRecv
    /\ io' = <<>>
    /\ status' = NoStatus
    /\ outcome' = Raise("none")
    /\ UNCHANGED sockvars

Next ==
    \/ Finish
    \/ Do_request
    \/ Do_set_trigger
    \/ Do_set_num_samples
    \/ Do_set_sample_rate
    \/ Do_get_all_sample_rates
    \/ Do_get_connected_devices
    \/ Do_get_performance
    \/ Do_set_performance
    \/ Do_get_capture_pretrigger_buffer_size
    \/ Do_set_capture_pretrigger_buffer_size
    \/ Do_select_active_device
    \/ Do_get_active_channels
    \/ Do_set_active_channels
    \/ Do_reset_active_channels
    \/ Do_capture
    \/ Do_stop_capture
    \/ Do_capture_to_file
    \/ Do_is_processing_complete

Spec == Init /\ [][Next]_vars

(***************************************************************************)
(* One session over time: the socket keeps what the device sent and the    *)
(* client has not read.  A request whose recv timed out is still answered  *)
(* by the device, and the answer then lies in the socket; recv returns     *)
(* the oldest unread frame.  Frames are kept whole: every successful read  *)
(* returns one whole frame.                                                *)
(***************************************************************************)
StatusOnly == {_ACK, _NAK}

\* the frames the device answers an operation with
Replies(o) ==
    IF o = "is_processing_complete"
    THEN {Join(<<T_TRUE, _ACK>>, <<LF>>), _NAK}
    ELSE StatusOnly

SessionOps == {"capture", "stop_capture", "is_processing_complete"}

Token(o) ==
    CASE o = "capture" -> T_capture
      [] o = "stop_capture" -> T_stop_capture
      [] o = "is_processing_complete" -> T_is_processing_complete

CallOf(o, n, r) ==
    CASE o = "capture" -> capture(n, r)
      [] o = "stop_capture" -> stop_capture(n, r)
      [] o = "is_processing_complete" -> is_processing_complete(n, r)

\* one call of operation o on the session: the request is written (unless
\* send fails) and the device has it to answer; while recv waits the device
\* may answer the oldest unanswered request with a frame b; recv returns
\* the oldest unread frame, or times out when there is none
SessionCall ==
    /\ Idle
    /\ reqno < MaxCalls
    /\ \E o \in SessionOps, answers \in BOOLEAN :
        \E n \in {SendError, Len(Encode(Token(o), <<>>))} :
            LET q == reqno + 1
                pending == IF n = SendError THEN late
                           ELSE Append(late, [req |-> q, op |-> o])
                onwire == n # SendError /\ answers
            IN  \E b \in (IF onwire THEN Replies(Head(pending).op) ELSE {<<>>}) :
                    LET unread == IF onwire
                                  THEN Append(rx, [req |-> Head(pending).req, buf |-> b])
                                  ELSE rx
                        r == IF unread = <<>> THEN RecvTimeout
                             ELSE RecvData(Head(unread).buf)
                        read == n # SendError /\ unread # <<>>
                    IN  /\ Exchange(o, <<>>, CallOf(o, n, r), n, r)
                        /\ reqno' = q
                        /\ ansno' = IF read THEN Head(unread).req ELSE 0
                        /\ rx' = IF read THEN Tail(unread) ELSE unread
                        /\ late' = IF onwire THEN Tail(pending) ELSE pending

\* the device answers the oldest unanswered request while no call is waiting
DeviceAnswers ==
    /\ late # <<>>
    /\ \E b \in Replies(Head(late).op) :
        /\ rx' = Append(rx, [req |-> Head(late).req, buf |-> b])
        /\ late' = Tail(late)
    /\ UNCHANGED <<callvars, reqno, ansno>>

NextSession ==
    \/ Finish
    \/ SessionCall
    \/ DeviceAnswers

SpecSession == Init /\ [][NextSession]_vars

(***************************************************************************)
(* Properties.                                                             *)
(***************************************************************************)
\* position of the last line separator of a buffer, 0 when it has none
LastLF(buf) ==
    LET nl == {i \in 1..Len(buf) : buf[i] = LF}
    IN  IF nl = {} THEN 0 ELSE CHOOSE i \in nl : \A j \in nl : j <= i

\* the text after the last line separator
StatusLineOf(buf) == SubSeq(buf, LastLF(buf) + 1, Len(buf))

\* lines is the text before the last line separator, cut at the separators
IsPayloadOf(lines, buf) ==
    /\ Len(lines) = Cardinality({i \in 1..Len(buf) : buf[i] = LF})
    /\ \A i \in 1..Len(lines) : \A j \in 1..Len(lines[i]) : lines[i][j] # LF
    /\ lines # <<>> => Join(lines, <<LF>>) = SubSeq(buf, 1, LastLF(buf) - 1)

\* C1: whatever buffer the read of request() returns, the text after its
\* last line separator alone decides: request() returns the lines before
\* it, in order, exactly when it is "ACK", raises NAKError exactly when it
\* is "NAK" and raises ResponseError in every other case (the empty buffer
\* and a buffer ending in a separator included); no line is returned with
\* NAKError or ResponseError.
C1_StatusLineDecides ==
    rbuf.res = "data" =>
        LET st == StatusLineOf(rbuf.buf)
        IN  /\ status.kind = (IF st = _ACK THEN "return"
                              ELSE IF st = _NAK THEN "NAKError"
                              ELSE "ResponseError")
            /\ status.kind = "return" => IsPayloadOf(status.lines, rbuf.buf)
            /\ status.kind # "return" => status.lines = <<>>

C1_Witness ==
    /\ rbuf.res = "data"
    /\ status.kind = "return"
    /\ Len(status.lines) = 2
    /\ status.lines[1] # status.lines[2]

IsEdge(p) == p.t = "str" /\ p.s \in {T_negedge, T_posedge}

IsTriggerValue(p) ==
    p.t = "none" \/ (p.t = "str" /\ p.s \in {T_high, T_low, T_negedge, T_posedge})

\* a trigger sequence set_trigger must refuse
BadTrigger(ps) ==
    \/ \E i \in 1..Len(ps) : ~IsTriggerValue(ps[i])
    \/ Cardinality({i \in 1..Len(ps) : IsEdge(ps[i])}) >= 2

\* C3: set_trigger with two or more edge entries, or an entry that is no
\* trigger value, raises ValueError and nothing has been written; with
\* valid entries and at most one edge exactly one set_trigger frame is
\* written.
C3_TriggerValidatedBeforeSend ==
    op = "set_trigger" =>
        IF BadTrigger(params)
        THEN outcome.kind = "ValueError" /\ sent = <<>> /\ io = <<>>
        ELSE /\ Len(sent) = 1
             /\ SubSeq(sent[1], 1, Len(T_set_trigger)) = T_set_trigger
             /\ Last(sent[1]) = NUL
             /\ Cardinality({i \in 1..Len(io) : io[i] = "send"}) = 1

C3_Witness ==
    /\ op = "set_trigger"
    /\ Cardinality({i \in 1..Len(params) : IsEdge(params[i])}) = 2
    /\ \A i \in 1..Len(params) : IsTriggerValue(params[i])
    /\ outcome.kind = "ValueError"
    /\ sent = <<>>

\* C4, as claimed: in get_connected_devices a payload line of fewer than 4
\* fields, wherever it stands among the lines, makes the call raise
\* ResponseError.
C4_ShortLineRaisesResponseError ==
    (/\ op = "get_connected_devices"
     /\ status.kind = "return"
     /\ \E i \in 1..Len(status.lines) :
            Len(Split(status.lines[i], <<COMMA, SPACE>>)) < 4)
        => outcome.kind = "ResponseError"

\* C5, as claimed: every call ends in a decoded result or in one of the
\* four classified failures (socket.error, NAKError, ResponseError, or a
\* ValueError raised before any I/O).
C5_OnlyClassifiedFailures ==
    ~Idle =>
        \/ outcome.kind \in {"return", "socket.error", "socket.timeout",
                             "NAKError", "ResponseError"}
        \/ outcome.kind = "ValueError" /\ io = <<>>

\* the text of one scalar argument
Rendered(a) ==
    IF a.t = "none" THEN <<>> ELSE IF a.t = "int" THEN str_int(a.n) ELSE a.s

\* C6, as claimed: the frame of request(cmd, *args) ends in its only NUL,
\* and without it splits on commas into cmd followed by one text per
\* argument, the empty text for None.
C6_FrameSplitsIntoCommandAndArguments ==
    (op = "request" /\ sent # <<>>) =>
        LET frame == sent[1]
            cmd == params[1]
            args == Tail(params)
        IN  /\ Last(frame) = NUL
            /\ \A i \in 1..(Len(frame) - 1) : frame[i] # NUL
            /\ Split(Front(frame), <<COMMA>>) =
                   <<cmd>> \o [i \in 1..Len(args) |-> Rendered(args[i])]

\* C7, as claimed: when send accepts fewer bytes than the frame holds the
\* call fails with socket.error and reads nothing.
C7_ShortWriteFails ==
    (sent # <<>> /\ accepted # SendError /\ accepted < Len(sent[1])) =>
        outcome.kind = "socket.error" /\ io = <<"send">>

\* C8, as claimed: a decoded device is active exactly when its line has a
\* 5th field and that field is "ACTIVE", also when more fields follow.
C8_ActiveIffFifthFieldIsActive ==
    (op = "get_connected_devices" /\ outcome.kind = "return") =>
        \A i \in 1..Len(outcome.val) :
            LET fields == Split(status.lines[i], <<COMMA, SPACE>>)
            IN  outcome.val[i].active <=> (Len(fields) >= 5 /\ fields[5] = T_ACTIVE)

\* C9: a call writes at most once and then reads at most once: nothing
\* when validation fails, no read when the write fails, no second write or
\* read after a timeout, connection error, NAK or malformed response; and
\* the failure of the exchange is the failure the caller gets, but for the
\* NAK of stop_capture.
C9_OneWriteThenOneReadNoRetry ==
    ~Idle =>
        /\ io \in {<<>>, <<"send">>, <<"send", "recv">>}
        /\ Len(sent) = (IF io = <<>> THEN 0 ELSE 1)
        /\ (op = "set_trigger" /\ BadTrigger(params)) <=> io = <<>>
        /\ io = <<"send">> <=> (io # <<>> /\ accepted = SendError)
        /\ io = <<"send">> => outcome.kind = "socket.error"
        /\ (io = <<"send", "recv">> /\ rbuf.res = "timeout")
               => outcome.kind = "socket.timeout"
        /\ (io = <<"send", "recv">> /\ rbuf.res = "error")
               => outcome.kind = "socket.error"
        /\ (status.kind \in {"NAKError", "ResponseError"}
                /\ ~(op = "stop_capture" /\ status.kind = "NAKError"))
               => outcome.kind = status.kind

C9_Witness ==
    /\ op = "capture"
    /\ io = <<"send", "recv">>
    /\ rbuf.res = "timeout"
    /\ outcome.kind = "socket.timeout"

\* C10, as claimed: on one session, with whole frames read, the reply a
\* call acts on is the device's answer to that call's own request, also
\* after an earlier call timed out.
C10_ReplyBelongsToRequest ==
    rbuf.res = "data" => ansno = reqno
====
